---------------------------- MODULE Spec2Model ----------------------------
(***************************************************************************)
(* CtrlChecks worker: the background job pipeline.                         *)
(*                                                                         *)
(*   app/background/task_queue.py   TaskQueue (asyncio queue + loops)      *)
(*   app/background/worker_pool.py  WorkerPool (delegates to TaskQueue)    *)
(*   app/utils/retries.py           retry_configured (tenacity)            *)
(*   app/database.py                execute_with_retry                     *)
(*   app/services/workflow_generation.py                                   *)
(*        generate_workflow_async, workflow_status, process_job            *)
(*   app/routers/jobs.py            process_job_route (worker trigger)     *)
(*   app/main.py                    lifespan (start at boot, stop at exit) *)
(*                                                                         *)
(* The event loop is cooperative: a coroutine runs until it suspends.  The *)
(* store calls (supabase) are synchronous, so the only suspension points   *)
(* are the wait on an empty queue, the outbound language-model call, the   *)
(* back-off sleep of the retry wrapper and the gather of stop().  Every    *)
(* action below is one such slice; a slice that reads the store and then   *)
(* writes it touches one row with one update, so a finer interleaving      *)
(* shows no other store states.                                            *)
(***************************************************************************)
EXTENDS Integers, Sequences, FiniteSets, TLC

\* ------------------------------------------------------------------ bounds
MaxJobs == 1
MaxSubmit == 2
MaxTasks == 3
MaxStarts == 1
MaxAttemptsBound == 4
MaxDelayBound == 3
MaxRestarts == 2
MaxQueued == 1
MaxStartCalls == 3

\* ------------------------------------------------------- program constants
worker_count == 2
max_retries == 3

JobIds == 1..MaxJobs

NoJob == [status |-> "absent"]
NULL == "null"
NoUser == "anonymous"
Users == {}
\* The handlers spec: who may have created a job, who may read it, and the
\* path word the status route takes for a missing id.
Owners == {"userA", NoUser}
Requesters == {"userA", "userB", NoUser}
ReservedId == 0
Prompts == {"", " ", "build a form"}

VARIABLES
    jobs,        \* workflow_generation_jobs: id -> row, or NoJob
    queue,       \* TaskQueue._queue
    workers,     \* TaskQueue._workers (loop ids)
    stop_event,  \* TaskQueue._stop_event
    loops,       \* the worker loop coroutines: id -> position and locals
    lifespan,    \* position of app.main.lifespan
    stop_call,   \* the pending stop() call, if any, and the loops it awaits
    submitted,   \* number of tasks handed to WorkerPool.submit
    tasklog,     \* per submitted task: who took it, how it ended (history)
    joblog,      \* per job id: what was ever written to it (history)
    retry,       \* one execute_with_retry call on its own (RetryPolicy)
    reply        \* the last answer of an HTTP handler (handlers spec)

poolVars == <<queue, workers, stop_event, loops, lifespan, stop_call>>
pipeVars == <<jobs, submitted, tasklog, joblog>>
vars == <<jobs, queue, workers, stop_event, loops, lifespan, stop_call,
          submitted, tasklog, joblog, retry, reply>>


\* ------------------------------------------------------------ RetryPolicy
\* retry_configured: tenacity's retry(retry_if_exception_type(Exception),
\* stop_after_attempt(max_retries), wait_exponential(min, max), reraise).
\* stop_after_attempt(n): give up once attempt_number >= n.
RetryStopOneLate(attempt_number, n) == attempt_number > n
RetryStop(attempt_number, n) == attempt_number >= n

Pow2(n) == IF n <= 0 THEN 1 ELSE 2 ^ n
Min2(a, b) == IF a <= b THEN a ELSE b
Max2(a, b) == IF a >= b THEN a ELSE b
\* wait_exponential(min=lo, max=hi), multiplier 1, base 2: the exponential
\* 2^(attempt_number - 1), clamped into [lo, hi] (the lower clamp wins).
WaitExponential(attempt_number, lo, hi) ==
    Max2(Max2(0, lo), Min2(Pow2(attempt_number - 1), hi))

\* ---------------------------------------------------------------- tasks
\* TaskQueue._noop, and the closure lambda: process_job(job_id).  tid numbers
\* the submissions (two closures for the same job are two tasks).
Noop == [kind |-> "noop", job |-> 0, tid |-> 0]
ProcessTask(job_id, tid) == [kind |-> "process", job |-> job_id, tid |-> tid]
\* Any other JobCallable: a coroutine that suspends, then returns or raises.
PlainTask(tid) == [kind |-> "plain", job |-> 0, tid |-> tid]

\* -------------------------------------------------------------- JobStore
\* An insert that would create the row already started.
NewJobStarted(prompt, user_id) ==
    [status |-> "running", progress_percentage |-> 5, prompt |-> prompt,
     mode |-> "create", current_workflow |-> NULL, execution_history |-> "[]",
     config |-> "{}",
     user_id |-> user_id, workflow_result |-> NULL, error_message |-> NULL,
     started_at |-> "set", finished_at |-> NULL]

\* The row inserted by generate_workflow_async (the payload's mode, prior
\* workflow, history and config at their defaults).
NewJob(prompt, user_id) ==
    [status |-> "queued", progress_percentage |-> 0, prompt |-> prompt,
     mode |-> "create", current_workflow |-> NULL, execution_history |-> "[]",
     config |-> "{}",
     user_id |-> user_id, workflow_result |-> NULL, error_message |-> NULL,
     started_at |-> NULL, finished_at |-> NULL]

\* A first update that would leave the status for later.
UpdateStartedOnly(row) == [row EXCEPT !.started_at = "set"]

\* The three updates of process_job; each sets the named columns of one row.
UpdateRunning(row) ==
    [row EXCEPT !.status = "running", !.progress_percentage = 5,
                !.started_at = "set"]
UpdateCompleted(row, result) ==
    [row EXCEPT !.status = "completed", !.progress_percentage = 100,
                !.workflow_result = result, !.finished_at = "set"]
UpdateFailedBlanking(row, message) ==
    [row EXCEPT !.status = "failed", !.error_message = message,
                !.finished_at = "set", !.prompt = ""]
UpdateFailed(row, message) ==
    [row EXCEPT !.status = "failed", !.error_message = message,
                !.finished_at = "set"]

\* _extract_prompt: strip the prompt; the empty string is falsy.
ExtractPrompt(prompt) == IF prompt \in {"", " "} THEN "" ELSE prompt

\* What _generate_workflow_payload returns once the model call is over:
\* the parsed JSON reply, else the fallback.
LlmOutcomes == {"json", "not_json", "blank", "exception"}
GenerationResult(llm) == IF llm = "json" THEN "llm_workflow" ELSE "fallback_workflow"

\* _generate_workflow_payload from the outbound call on (lines 96-105): the
\* call and the parsing are inside one try whose except clause returns the
\* fallback, so nothing is raised from there.
AfterCallUncaught(llm) ==
    IF llm = "exception" THEN [raised |-> TRUE, value |-> "LLM error"]
    ELSE [raised |-> FALSE, value |-> GenerationResult(llm)]
AfterCall(llm) == [raised |-> FALSE, value |-> GenerationResult(llm)]

\* Python truthiness of a stored workflow_result / error_message.
Truthy(v) == v \notin {NULL, ""}

\* A status read that would refuse every requester other than the owner,
\* the anonymous one included.
WorkflowStatusOwnerOnly(row, requester) ==
    IF row = NoJob
      THEN [code |-> 404, status |-> NULL, progress_percentage |-> 0,
            workflow |-> NULL, error |-> NULL]
      ELSE IF row.user_id # NoUser /\ row.user_id # requester
        THEN [code |-> 403, status |-> NULL, progress_percentage |-> 0,
              workflow |-> NULL, error |-> NULL]
        ELSE [code |-> 200, status |-> row.status,
              progress_percentage |-> row.progress_percentage,
              workflow |-> IF row.status = "completed" /\ Truthy(row.workflow_result)
                             THEN row.workflow_result ELSE NULL,
              error |-> IF row.status = "failed" /\ Truthy(row.error_message)
                          THEN row.error_message ELSE NULL]

\* workflow_status: 404 without a row; 403 when both the requester and the
\* row's user_id are set and differ; else the view, with the workflow or the
\* error only under the matching status and only when truthy.
WorkflowStatus(row, requester) ==
    IF row = NoJob
      THEN [code |-> 404, status |-> NULL, progress_percentage |-> 0,
            workflow |-> NULL, error |-> NULL]
      ELSE IF requester # NoUser /\ row.user_id # NoUser /\ row.user_id # requester
        THEN [code |-> 403, status |-> NULL, progress_percentage |-> 0,
              workflow |-> NULL, error |-> NULL]
        ELSE [code |-> 200, status |-> row.status,
              progress_percentage |-> row.progress_percentage,
              workflow |-> IF row.status = "completed" /\ Truthy(row.workflow_result)
                             THEN row.workflow_result ELSE NULL,
              error |-> IF row.status = "failed" /\ Truthy(row.error_message)
                          THEN row.error_message ELSE NULL]

\* generate_workflow_async's answer: 400 for an empty prompt, else 202 with
\* status queued (the job id is the inserted row's id).
CreateJobResponse(prompt) ==
    IF ExtractPrompt(prompt) = ""
      THEN [code |-> 400, status |-> NULL]
      ELSE [code |-> 202, status |-> "queued"]

\* workflow_status with its id check: the last path segment is the job id,
\* and the words "workflow-status" and "status" are answered 400.
Answer(code) ==
    [code |-> code, status |-> NULL, progress_percentage |-> 0,
     workflow |-> NULL, error |-> NULL]
WorkflowStatusRoute(job_id, requester) ==
    IF job_id = ReservedId THEN Answer(400) ELSE WorkflowStatus(jobs[job_id], requester)

\* generate_workflow: with x-stream-progress the streaming response (200) is
\* returned before _generate_workflow_payload runs; else an empty prompt is
\* 400, a missing data file 500, anything else 200 with the workflow.
GenerateWorkflowResponse(prompt, stream, files_ok) ==
    IF stream THEN [Answer(200) EXCEPT !.status = "streaming"]
    ELSE IF ExtractPrompt(prompt) = "" THEN Answer(400)
    ELSE IF ~files_ok THEN Answer(500)
    ELSE [Answer(200) EXCEPT !.workflow = "workflow"]

\* busy: how many worker loops were executing a task when the handler ran.
NoReply == [handler |-> "none", job_id |-> 0, requester |-> NoUser, prompt |-> NULL,
            busy |-> 0, answer |-> Answer(0)]

\* ------------------------------------------------------------ worker loop
NewLoop == [pc |-> "check", task |-> Noop, attempt |-> 0]

\* _worker_loop's try/except/finally: whether the task returned or raised,
\* the loop goes back to the while test.
\* A loop that would go for the next item without the while test.
AfterTaskNoTest(raised) == "get"
AfterTaskUncaught(raised) == IF raised THEN "exited" ELSE "check"
AfterTask(raised) == "check"

\* The loop ends its current task (task_done).
EndTask(loop, raised) ==
    [loop EXCEPT !.pc = AfterTask(raised), !.task = Noop, !.attempt = 0]

Holders(job_id) ==
    {l \in DOMAIN loops : /\ loops[l].pc \in {"load", "generate"}
                          /\ loops[l].task.job = job_id}

\* atstop: the task was executing when the lifespan called stop().
NewTaskLog(job_id) ==
    [job |-> job_id, takers |-> <<>>, end |-> "pending", atstop |-> FALSE]
InFlight ==
    {loops[l].task.tid : l \in {k \in DOMAIN loops : loops[k].pc \in {"load", "generate", "run"}}}
NewJobLog == [completed |-> FALSE, failed |-> FALSE]

\* ------------------------------------------------------------ TaskQueue
\* The loop coroutines that have not returned.
LiveLoops == {l \in DOMAIN loops : loops[l].pc # "exited"}

NoStop == [pc |-> "idle", awaited |-> {}]

\* TaskQueue.start: clear the stop event, create worker_count loop tasks and
\* append them to _workers.
Start ==
    /\ stop_event' = FALSE
    /\ loops' = loops \o [i \in 1..worker_count |-> NewLoop]
    /\ workers' = workers \o [i \in 1..worker_count |-> Len(loops) + i]

\* A stop() that would put no no-ops.
StopBeginNoNoop ==
    /\ stop_event' = TRUE
    /\ queue' = queue
    /\ stop_call' = IF workers = <<>>
                      THEN NoStop
                      ELSE [pc |-> "gather",
                            awaited |-> {workers[i] : i \in 1..Len(workers)}]

\* TaskQueue.stop up to its gather: set the event, put one no-op per entry
\* of _workers (put on an unbounded queue does not suspend), await them.
\* With _workers empty the gather of nothing is done at once and stop()
\* returns without suspending.
StopBegin ==
    /\ stop_event' = TRUE
    /\ queue' = queue \o [i \in 1..Len(workers) |-> Noop]
    /\ stop_call' = IF workers = <<>>
                      THEN NoStop
                      ELSE [pc |-> "gather",
                            awaited |-> {workers[i] : i \in 1..Len(workers)}]

\* A stop() that would not await its gather.
StopEndNoWait ==
    /\ stop_call.pc = "gather"
    /\ workers' = <<>>
    /\ stop_call' = NoStop

\* TaskQueue.stop after its gather: every awaited loop is done; clear _workers.
StopEnd ==
    /\ stop_call.pc = "gather"
    /\ \A l \in stop_call.awaited : loops[l].pc = "exited"
    /\ workers' = <<>>
    /\ stop_call' = NoStop

\* An enqueue that would put the task twice.
EnqueueTwice(task) == queue' = queue \o <<task, task>>

\* An enqueue that would put the task at the head.
EnqueueFront(task) == queue' = <<task>> \o queue

\* TaskQueue.enqueue (WorkerPool.submit delegates to it).
Enqueue(task) == queue' = Append(queue, task)

\* asyncio.Queue.get: the head leaves the queue.
AfterGetPeek(q) == q
AfterGet(q) == Tail(q)

\* ------------------------------------------------------------- lifespan
\* app.main.lifespan: start the pool at boot, serve, stop it at shutdown.
LifespanStartup ==
    /\ lifespan = "boot"
    /\ Start
    /\ lifespan' = "serving"
    /\ UNCHANGED <<queue, stop_call, pipeVars, retry, reply>>

\* The shutdown calls stop(); tasklog notes which tasks were executing then.
LifespanShutdown ==
    /\ lifespan = "serving"
    /\ StopBegin
    /\ lifespan' = "stopping"
    /\ tasklog' = [t \in DOMAIN tasklog |-> [tasklog[t] EXCEPT !.atstop = (t \in InFlight)]]
    /\ UNCHANGED <<workers, loops, jobs, submitted, joblog, retry, reply>>

LifespanStopped ==
    /\ lifespan = "stopping"
    /\ StopEnd
    /\ lifespan' = "stopped"
    /\ UNCHANGED <<queue, stop_event, loops, pipeVars, retry, reply>>

\* ------------------------------------------------------------- handlers
\* generate_workflow_async: reject an empty prompt with 400, else insert one
\* row with status queued and answer 202.  Nothing is submitted to the pool.
\* The id is drawn from the clock and a random number; the store keeps one
\* row per id (reads use .single()), so an insert under a taken id raises.
InsertJob(job_id, prompt, user_id) ==
    IF ExtractPrompt(prompt) = "" \/ jobs[job_id] # NoJob
      THEN UNCHANGED jobs
      ELSE jobs' = [jobs EXCEPT ![job_id] = NewJob(ExtractPrompt(prompt), user_id)]

CreateJob(job_id, prompt, user_id) ==
    /\ lifespan = "serving"
    /\ InsertJob(job_id, prompt, user_id)
    /\ UNCHANGED <<poolVars, submitted, tasklog, joblog, retry, reply>>

\* process_job_route: submit the closure, answer accepted.  No lookup, no
\* check of the job's status, no record of earlier submissions.
Submit(job_id) ==
    /\ submitted' = submitted + 1
    /\ Enqueue(ProcessTask(job_id, submitted + 1))
    /\ tasklog' = Append(tasklog, NewTaskLog(job_id))

ProcessJobRoute(job_id) ==
    /\ lifespan = "serving"
    /\ submitted < MaxSubmit
    /\ Submit(job_id)
    /\ UNCHANGED <<jobs, workers, stop_event, loops, lifespan, stop_call,
                   joblog, retry, reply>>

\* ---------------------------------------------------------- _worker_loop
\* while not self._stop_event.is_set(): ...
WorkerCheck(l) ==
    /\ loops[l].pc = "check"
    /\ loops' = [loops EXCEPT ![l].pc = IF stop_event THEN "exited" ELSE "get"]
    /\ UNCHANGED <<queue, workers, stop_event, lifespan, stop_call, pipeVars, retry, reply>>

\* job = await self._queue.get(); await job().  A no-op returns at once; a
\* process closure starts the first attempt of the retry wrapper.
WorkerGet(l) ==
    /\ loops[l].pc = "get"
    /\ queue # <<>>
    /\ queue' = AfterGet(queue)
    /\ LET task == Head(queue) IN
         IF task.kind = "noop"
           THEN /\ loops' = [loops EXCEPT ![l].pc = AfterTask(FALSE)]
                /\ UNCHANGED tasklog
           ELSE /\ loops' = [loops EXCEPT
                              ![l].pc = IF task.kind = "process" THEN "load" ELSE "run",
                              ![l].task = task, ![l].attempt = 1]
                /\ tasklog' = [tasklog EXCEPT ![task.tid].takers = Append(@, l)]
    /\ UNCHANGED <<workers, stop_event, lifespan, stop_call, jobs, submitted,
                   joblog, retry, reply>>

\* await job() for a plain task: it returns, or raises into the loop.
PlainRun(l) ==
    /\ loops[l].pc = "run"
    /\ \E raised \in BOOLEAN :
         /\ loops' = [loops EXCEPT ![l] = EndTask(loops[l], raised)]
         /\ tasklog' = [tasklog EXCEPT ![loops[l].task.tid].end =
                          IF raised THEN "raised" ELSE "returned"]
    /\ UNCHANGED <<queue, workers, stop_event, lifespan, stop_call, jobs, submitted,
                   joblog, retry, reply>>

\* ------------------------------------------------------------ process_job
\* An exception left the body: retry_configured runs the body again unless
\* the attempts are used up, and then re-raises into _worker_loop.
BodyRaised(loop) ==
    IF RetryStop(loop.attempt, max_retries)
      THEN EndTask(loop, TRUE)
      ELSE [loop EXCEPT !.pc = "load", !.attempt = @ + 1]
LogRaised(log, loop) ==
    IF RetryStop(loop.attempt, max_retries) THEN [log EXCEPT !.end = "raised"] ELSE log

\* The body returned None: the wrapper returns, the task is over.
BodyReturned(loop) == EndTask(loop, FALSE)
LogReturned(log) == [log EXCEPT !.end = "returned"]

\* The body up to its first suspension: the lookup, the running update, and
\* _generate_workflow_payload up to the outbound call.  The prompt check or
\* the data files may raise there, and process_job's except clause then
\* writes failed.  Any store write may raise.
BeginOutcomes == {"running_raises", "prelude_raises", "prelude_raises_write_raises", "call"}
ProcessBegin(l) ==
    /\ loops[l].pc = "load"
    /\ LET loop == loops[l]
           tid == loop.task.tid
           job_id == loop.task.job
           row == jobs[job_id]
           log == tasklog[tid]
           running == [jobs EXCEPT ![job_id] = UpdateRunning(row)]
           message == IF ExtractPrompt(row.prompt) = "" THEN "Prompt is required"
                      ELSE "Data file not found"
       IN
       IF row = NoJob
         THEN /\ loops' = [loops EXCEPT ![l] = BodyRaised(loop)]
              /\ tasklog' = [tasklog EXCEPT ![tid] = LogRaised(log, loop)]
              /\ UNCHANGED <<jobs, joblog>>
         ELSE \E out \in BeginOutcomes :
              /\ out = "call" => ExtractPrompt(row.prompt) # ""
              /\ CASE out = "running_raises" ->
                        /\ loops' = [loops EXCEPT ![l] = BodyRaised(loop)]
                        /\ tasklog' = [tasklog EXCEPT ![tid] = LogRaised(log, loop)]
                        /\ UNCHANGED <<jobs, joblog>>
                   [] out = "prelude_raises" ->
                        /\ jobs' = [jobs EXCEPT ![job_id] =
                                      UpdateFailed(UpdateRunning(row), message)]
                        /\ loops' = [loops EXCEPT ![l] = BodyReturned(loop)]
                        /\ tasklog' = [tasklog EXCEPT ![tid] = LogReturned(log)]
                        /\ joblog' = [joblog EXCEPT ![job_id].failed = TRUE]
                   [] out = "prelude_raises_write_raises" ->
                        /\ jobs' = running
                        /\ loops' = [loops EXCEPT ![l] = BodyRaised(loop)]
                        /\ tasklog' = [tasklog EXCEPT ![tid] = LogRaised(log, loop)]
                        /\ UNCHANGED joblog
                   [] out = "call" ->
                        /\ jobs' = running
                        /\ loops' = [loops EXCEPT ![l].pc = "generate"]
                        /\ UNCHANGED <<tasklog, joblog>>
    /\ UNCHANGED <<queue, workers, stop_event, lifespan, stop_call, submitted, retry, reply>>

\* The body after the outbound call: _generate_workflow_payload returns the
\* parsed reply or the fallback (every failure of the call is caught there);
\* an exception out of it would reach process_job's except clause, which
\* writes failed with its message.  The completed update is inside the try,
\* so if it raises the except clause writes failed with the store's message.
ResumeOutcomes == {"completed", "completed_raises", "both_raise"}
ProcessResume(l) ==
    /\ loops[l].pc = "generate"
    /\ LET loop == loops[l]
           tid == loop.task.tid
           job_id == loop.task.job
           row == jobs[job_id]
           log == tasklog[tid]
       IN
       \E llm \in LlmOutcomes, out \in ResumeOutcomes :
         CASE out = "completed" /\ ~AfterCall(llm).raised ->
                /\ jobs' = [jobs EXCEPT ![job_id] =
                              UpdateCompleted(row, AfterCall(llm).value)]
                /\ loops' = [loops EXCEPT ![l] = BodyReturned(loop)]
                /\ tasklog' = [tasklog EXCEPT ![tid] = LogReturned(log)]
                /\ joblog' = [joblog EXCEPT ![job_id].completed = TRUE]
           [] out = "completed" /\ AfterCall(llm).raised ->
                /\ jobs' = [jobs EXCEPT ![job_id] =
                              UpdateFailed(row, AfterCall(llm).value)]
                /\ loops' = [loops EXCEPT ![l] = BodyReturned(loop)]
                /\ tasklog' = [tasklog EXCEPT ![tid] = LogReturned(log)]
                /\ joblog' = [joblog EXCEPT ![job_id].failed = TRUE]
           [] out = "completed_raises" ->
                /\ jobs' = [jobs EXCEPT ![job_id] = UpdateFailed(row, "Store error")]
                /\ loops' = [loops EXCEPT ![l] = BodyReturned(loop)]
                /\ tasklog' = [tasklog EXCEPT ![tid] = LogReturned(log)]
                /\ joblog' = [joblog EXCEPT ![job_id].failed = TRUE]
           [] out = "both_raise" ->
                /\ loops' = [loops EXCEPT ![l] = BodyRaised(loop)]
                /\ tasklog' = [tasklog EXCEPT ![tid] = LogRaised(log, loop)]
                /\ UNCHANGED <<jobs, joblog>>
    /\ UNCHANGED <<queue, workers, stop_event, lifespan, stop_call, submitted, retry, reply>>

\* ------------------------------------------------------- the pipeline spec
RetryIdle == [state |-> "idle", max |-> 0, plan |-> 0, base |-> 0, cap |-> 0,
              attempt |-> 0, calls |-> 0, value |-> 0, delay |-> 0]

InitPipeline ==
    /\ jobs = [j \in JobIds |-> NoJob]
    /\ queue = <<>>
    /\ workers = <<>>
    /\ stop_event = FALSE
    /\ loops = <<>>
    /\ lifespan = "boot"
    /\ stop_call = NoStop
    /\ submitted = 0
    /\ tasklog = <<>>
    /\ joblog = [j \in JobIds |-> NewJobLog]
    /\ reply = NoReply

Init ==
    /\ InitPipeline
    /\ retry = RetryIdle

Next ==
    \/ LifespanStartup
    \/ LifespanShutdown
    \/ LifespanStopped
    \/ \E j \in JobIds, p \in Prompts, u \in Users \cup {NoUser} : CreateJob(j, p, u)
    \/ \E j \in JobIds : ProcessJobRoute(j)
    \/ \E l \in DOMAIN loops : WorkerCheck(l)
    \/ \E l \in DOMAIN loops : WorkerGet(l)
    \/ \E l \in DOMAIN loops : ProcessBegin(l)
    \/ \E l \in DOMAIN loops : ProcessResume(l)

Spec == Init /\ [][Next]_vars

\* ----------------------------------------------------- the TaskQueue spec
\* The TaskQueue used through its interface alone: start(), stop() and
\* enqueue() in any order, with plain tasks.
QueueStart ==
    /\ Len(loops) + worker_count <= worker_count * MaxStarts
    /\ Start
    /\ UNCHANGED <<queue, lifespan, stop_call, pipeVars, retry, reply>>

QueueStop ==
    /\ stop_call.pc = "idle"
    /\ StopBegin
    /\ UNCHANGED <<workers, loops, lifespan, pipeVars, retry, reply>>

QueueStopped ==
    /\ StopEnd
    /\ UNCHANGED <<queue, stop_event, loops, lifespan, pipeVars, retry, reply>>

QueueEnqueue ==
    /\ submitted < MaxTasks
    /\ submitted' = submitted + 1
    /\ Enqueue(PlainTask(submitted + 1))
    /\ tasklog' = Append(tasklog, NewTaskLog(0))
    /\ UNCHANGED <<jobs, workers, stop_event, loops, lifespan, stop_call,
                   joblog, retry, reply>>

NextQueue ==
    \/ QueueStart
    \/ QueueStop
    \/ QueueStopped
    \/ QueueEnqueue
    \/ \E l \in DOMAIN loops : WorkerCheck(l)
    \/ \E l \in DOMAIN loops : WorkerGet(l)
    \/ \E l \in DOMAIN loops : PlainRun(l)

SpecQueue == Init /\ [][NextQueue]_vars


\* ------------------------------------------------------ the restart spec
\* The TaskQueue started more than once: start(), stop() and enqueue() in
\* any order, with up to MaxRestarts calls of start().  The event loop runs
\* every coroutine that is ready, and a task that is running ends: the
\* worker steps and the return of stop() are weakly fair; the calls from
\* outside (start, stop, enqueue) are not.
RestartStart ==
    /\ Len(loops) + worker_count <= worker_count * MaxRestarts
    /\ Start
    /\ UNCHANGED <<queue, lifespan, stop_call, pipeVars, retry, reply>>

RestartEnqueue ==
    /\ submitted < MaxQueued
    /\ submitted' = submitted + 1
    /\ Enqueue(PlainTask(submitted + 1))
    /\ tasklog' = Append(tasklog, NewTaskLog(0))
    /\ UNCHANGED <<jobs, workers, stop_event, loops, lifespan, stop_call,
                   joblog, retry, reply>>

NextRestart ==
    \/ RestartStart
    \/ QueueStop
    \/ QueueStopped
    \/ RestartEnqueue
    \/ \E l \in DOMAIN loops : WorkerCheck(l)
    \/ \E l \in DOMAIN loops : WorkerGet(l)
    \/ \E l \in DOMAIN loops : PlainRun(l)

FairRestart ==
    /\ WF_vars(QueueStopped)
    /\ WF_vars(\E l \in DOMAIN loops : WorkerCheck(l) \/ WorkerGet(l) \/ PlainRun(l))

SpecRestart == Init /\ [][NextRestart]_vars /\ FairRestart

\* ----------------------------------------------------- the start/stop spec
\* start() and stop() alone, with nothing enqueued from outside and up to
\* MaxStartCalls calls of start(): the worker loops only ever see the no-ops
\* of stop().
StopsStart ==
    /\ Len(loops) + worker_count <= worker_count * MaxStartCalls
    /\ Start
    /\ UNCHANGED <<queue, lifespan, stop_call, pipeVars, retry, reply>>

NextStops ==
    \/ StopsStart
    \/ QueueStop
    \/ QueueStopped
    \/ \E l \in DOMAIN loops : WorkerCheck(l)
    \/ \E l \in DOMAIN loops : WorkerGet(l)

SpecStops == Init /\ [][NextStops]_vars

\* --------------------------------------------------- the RetryPolicy spec
\* execute_with_retry(action): one wrapped call of an action that raises on
\* its first `plan` invocations and returns afterwards.  The error raised by
\* invocation i is written i; the success value is written 0.
InitRetry ==
    /\ InitPipeline
    /\ \E n \in 1..MaxAttemptsBound, k \in 0..MaxAttemptsBound,
          lo \in 0..MaxDelayBound, hi \in 1..MaxDelayBound :
         retry = [RetryIdle EXCEPT !.state = "call", !.max = n, !.plan = k,
                                   !.base = lo, !.cap = hi]

\* One attempt: invoke the action; on an exception either stop and re-raise
\* it, or compute the wait and sleep.
RetryAttempt ==
    /\ retry.state = "call"
    /\ LET n == retry.attempt + 1
           r == [retry EXCEPT !.attempt = n, !.calls = @ + 1]
       IN
       retry' = IF n > retry.plan
                  THEN [r EXCEPT !.state = "returned", !.value = 0]
                  ELSE IF RetryStop(n, retry.max)
                    THEN [r EXCEPT !.state = "raised", !.value = n]
                    ELSE [r EXCEPT !.state = "sleep", !.value = n,
                                   !.delay = WaitExponential(n, retry.base, retry.cap)]
    /\ UNCHANGED <<poolVars, pipeVars, reply>>

\* The sleep is over: the next attempt.
RetrySleep ==
    /\ retry.state = "sleep"
    /\ retry' = [retry EXCEPT !.state = "call"]
    /\ UNCHANGED <<poolVars, pipeVars, reply>>

NextRetry ==
    \/ RetryAttempt
    \/ RetrySleep

SpecRetry == InitRetry /\ [][NextRetry]_vars


\* ------------------------------------------------------ the handlers spec
\* The HTTP handlers with their answers recorded, over a store that whole
\* runs of process_job write to.  reply holds the last answer; a write to
\* the store by process_job clears it (the answer is then out of date).
\* The id is job_<clock ms>_<random six digits>: nothing in the handler
\* keeps a second creation from drawing an id already given.  What the
\* insert then does is the store's matter: it raises (the handler does not
\* catch it: 500), or it takes the row in place of the old one, as the
\* store double of app/tests does.
DuplicateOutcomes == {"raises", "replaces"}
HandlerCreate(job_id, prompt, user_id, dup) ==
    /\ lifespan = "serving"
    /\ LET taken == ExtractPrompt(prompt) # "" /\ jobs[job_id] # NoJob IN
       /\ IF taken /\ dup = "replaces"
            THEN jobs' = [jobs EXCEPT ![job_id] = NewJob(ExtractPrompt(prompt), user_id)]
            ELSE InsertJob(job_id, prompt, user_id)
       /\ reply' = [handler |-> "create", job_id |-> job_id, requester |-> user_id,
                     prompt |-> prompt, busy |-> 0,
                     answer |-> IF taken /\ dup = "raises" THEN Answer(500)
                                ELSE [Answer(CreateJobResponse(prompt).code) EXCEPT
                                        !.status = CreateJobResponse(prompt).status]]
    /\ UNCHANGED <<poolVars, submitted, tasklog, joblog, retry>>

HandlerGenerate(prompt, stream, files_ok) ==
    /\ lifespan = "serving"
    /\ reply' = [handler |-> "generate", job_id |-> 0, requester |-> NoUser,
                  prompt |-> prompt, busy |-> 0,
                  answer |-> GenerateWorkflowResponse(prompt, stream, files_ok)]
    /\ UNCHANGED <<poolVars, pipeVars, retry>>

\* A status read that would touch the row it reads.
HandlerStatusTouching(job_id, requester) ==
    /\ lifespan = "serving"
    /\ reply' = [handler |-> "status", job_id |-> job_id, requester |-> requester,
                  prompt |-> NULL, busy |-> 0,
                  answer |-> WorkflowStatusRoute(job_id, requester)]
    /\ jobs' = [j \in JobIds |->
                  IF j = job_id /\ jobs[j] # NoJob
                    THEN [jobs[j] EXCEPT !.progress_percentage = 0] ELSE jobs[j]]
    /\ UNCHANGED <<poolVars, submitted, tasklog, joblog, retry>>

\* workflow_status: one select, one answer.
HandlerStatus(job_id, requester) ==
    /\ lifespan = "serving"
    /\ reply' = [handler |-> "status", job_id |-> job_id, requester |-> requester,
                  prompt |-> NULL, busy |-> 0,
                  answer |-> WorkflowStatusRoute(job_id, requester)]
    /\ UNCHANGED <<poolVars, pipeVars, retry>>

\* One whole run of process_job on a stored row: the running update, then
\* the completed update, or the failed one, or neither (both writes raised).
RunOutcomes == {"completed", "failed", "neither"}
RunProcessJob(job_id) ==
    /\ lifespan = "serving"
    /\ jobs[job_id] # NoJob
    /\ \E llm \in LlmOutcomes, out \in RunOutcomes :
         jobs' = [jobs EXCEPT ![job_id] =
                    CASE out = "completed" ->
                           UpdateCompleted(UpdateRunning(@), GenerationResult(llm))
                      [] out = "failed" ->
                           UpdateFailed(UpdateRunning(@), "Data file not found")
                      [] OTHER -> UpdateRunning(@)]
    /\ reply' = NoReply
    /\ UNCHANGED <<poolVars, submitted, tasklog, joblog, retry>>

NextHandlers ==
    \/ LifespanStartup
    \/ \E j \in JobIds, p \in Prompts, u \in Owners, dup \in DuplicateOutcomes :
         HandlerCreate(j, p, u, dup)
    \/ \E p \in Prompts, stream \in BOOLEAN, files_ok \in BOOLEAN :
         HandlerGenerate(p, stream, files_ok)
    \/ \E j \in JobIds \cup {ReservedId}, u \in Requesters : HandlerStatus(j, u)
    \/ \E j \in JobIds : RunProcessJob(j)

SpecHandlers == Init /\ [][NextHandlers]_vars

\* ------------------------------------------------------- the trigger spec
\* The worker trigger on its own, with its answer recorded: calls for ids
\* the store does not hold (the route never looks), so each task goes
\* through the lookup, the back-off sleeps and the final raise while
\* further calls arrive.
HandlerTrigger(job_id) ==
    /\ lifespan = "serving"
    /\ submitted < MaxTasks
    /\ Submit(job_id)
    /\ reply' = [handler |-> "trigger", job_id |-> job_id, requester |-> NoUser,
                  prompt |-> NULL, busy |-> Cardinality(InFlight),
                  answer |-> [Answer(200) EXCEPT !.status = "accepted"]]
    /\ UNCHANGED <<jobs, workers, stop_event, loops, lifespan, stop_call,
                   joblog, retry>>

NextTrigger ==
    \/ LifespanStartup
    \/ \E j \in JobIds : HandlerTrigger(j)
    \/ \E l \in DOMAIN loops : WorkerCheck(l)
    \/ \E l \in DOMAIN loops : WorkerGet(l)
    \/ \E l \in DOMAIN loops : ProcessBegin(l)

SpecTrigger == Init /\ [][NextTrigger]_vars

\* ================================================================ claims
Terminal == {"completed", "failed"}
Rank(status) ==
    CASE status = "absent" -> 0
      [] status = "queued" -> 1
      [] status = "running" -> 2
      [] OTHER -> 3
Executing == {"load", "generate", "run"}
SubmittedFor(job_id) == {t \in 1..Len(tasklog) : tasklog[t].job = job_id}

\* C1: a job's persisted status only moves forward along
\* queued -> running -> {completed, failed}; once it is completed or failed
\* no later operation changes it (a further process run never sets a
\* terminal job back to running).
C1_StatusOnlyMovesForward ==
    [][\A j \in JobIds :
         \/ jobs'[j].status = jobs[j].status
         \/ /\ jobs[j].status \notin Terminal
            /\ Rank(jobs[j].status) < Rank(jobs'[j].status)]_vars

\* C2: over its whole history a job is recorded as exactly one of completed
\* or failed, never first one and later the other, and once recorded as
\* terminal it never shows a non-terminal status again.
C2_ExactlyOneTerminalOutcome ==
    \A j \in JobIds :
      /\ ~(joblog[j].completed /\ joblog[j].failed)
      /\ (joblog[j].completed \/ joblog[j].failed) => jobs[j].status \in Terminal

\* C3: at every point at most one worker is executing process(jobId) for a
\* given job id: two workers never hold the same job in running (the
\* running update written, the generation awaited) at the same time.
RunningHolders(job_id) == {l \in Holders(job_id) : loops[l].pc = "generate"}
C3_AtMostOneHolder == \A j \in JobIds : Cardinality(RunningHolders(j)) <= 1

\* C4: every task submitted to the pool is executed exactly once by exactly
\* one worker: it is in the queue once and untaken, or held by the one loop
\* that took it, or ended after one execution; never lost, never run twice.
InQueue(tid) == {i \in 1..Len(queue) : queue[i].kind # "noop" /\ queue[i].tid = tid}
HeldBy(tid) == {l \in DOMAIN loops : loops[l].pc \in Executing /\ loops[l].task.tid = tid}
C4_EachTaskExactlyOnce ==
    /\ Len(tasklog) = submitted
    /\ \A t \in 1..submitted :
         /\ Len(tasklog[t].takers) <= 1
         /\ Cardinality(InQueue(t)) + Cardinality(HeldBy(t))
              + (IF tasklog[t].end # "pending" THEN 1 ELSE 0) = 1
         /\ InQueue(t) # {} <=> tasklog[t].takers = <<>>
         /\ HeldBy(t) # {} => HeldBy(t) = {tasklog[t].takers[1]}

\* More tasks than workers, submitted to one started pool, all executed.
C4_Witness ==
    /\ Len(loops) = worker_count
    /\ submitted > worker_count
    /\ \A t \in 1..submitted : tasklog[t].end # "pending" /\ Len(tasklog[t].takers) = 1

\* C5: every created job has its process task submitted to the pool by the
\* creation path itself, so no job is in the store with nothing submitted
\* for it.
C5_CreatedJobIsSubmitted ==
    \A j \in JobIds : jobs[j] # NoJob => SubmittedFor(j) # {}

\* C6: an action that fails k < maxAttempts times and then succeeds is
\* invoked k+1 times and the wrapped call returns the success value; an
\* action that fails on every attempt is invoked maxAttempts times and the
\* wrapped call raises the error of the last attempt.
C6_RetryCounts ==
    /\ retry.state = "returned" =>
         /\ retry.plan < retry.max
         /\ retry.calls = retry.plan + 1
         /\ retry.value = 0
    /\ retry.state = "raised" =>
         /\ retry.plan >= retry.max
         /\ retry.calls = retry.max
         /\ retry.value = retry.max

\* Two failures, then the third attempt of three succeeds.
C6_Witness ==
    /\ retry.state = "returned"
    /\ retry.plan = 2
    /\ retry.max = 3
    /\ retry.calls = 3

\* C7: when the generation action raises for a running job it is retried up
\* to maxRetries attempts, and only when every attempt has raised is the job
\* written failed with the last error, which the status read then returns.
\* (A body that returns from its first slice is one whose generation raised.)
C7_GenerationRetriedThenFailed ==
    [][\A l \in DOMAIN loops :
         (/\ loops[l].pc = "load"
          /\ tasklog'[loops[l].task.tid].end = "returned")
         => /\ loops[l].attempt = max_retries
            /\ WorkflowStatus(jobs'[loops[l].task.job], NoUser).status = "failed"
            /\ WorkflowStatus(jobs'[loops[l].task.job], NoUser).error # NULL]_vars

\* C8: a task that raises does not end its worker: a loop leaves a task only
\* for the while test, whether the task returned or raised, and a loop exits
\* only from the while test with the stop event set; no other step removes a
\* live loop.
C8_TaskErrorKeepsWorker ==
    [][\A l \in DOMAIN loops :
         /\ (loops[l].pc \in Executing /\ loops'[l].pc \notin Executing)
              => loops'[l].pc = "check"
         /\ (loops[l].pc # "exited" /\ loops'[l].pc = "exited")
              => (loops[l].pc = "check" /\ stop_event)]_vars

\* A loop whose earlier task raised is executing the next task it dequeued.
C8_Witness ==
    \E l \in DOMAIN loops, t \in 1..Len(tasklog) :
      /\ tasklog[t].end = "raised"
      /\ tasklog[t].takers = <<l>>
      /\ loops[l].pc \in Executing
      /\ loops[l].task.tid # t

\* C9: process(jobId) records exactly the outcome of the generation action:
\* when it returns the job is written completed with progress 100, the
\* result and finished_at, and the status read shows completed, 100 and the
\* workflow; and once a job is recorded failed the pipeline does not invoke
\* the generation action for it again.
C9_OutcomeRecorded ==
    [][\A l \in DOMAIN loops :
         LET j == loops[l].task.job IN
         /\ (loops[l].pc = "generate" /\ loops'[l].pc # "generate")
              => /\ jobs'[j].status = "completed"
                 /\ jobs'[j].progress_percentage = 100
                 /\ jobs'[j].workflow_result # NULL
                 /\ jobs'[j].finished_at # NULL
                 /\ WorkflowStatus(jobs'[j], NoUser).status = "completed"
                 /\ WorkflowStatus(jobs'[j], NoUser).progress_percentage = 100
                 /\ WorkflowStatus(jobs'[j], NoUser).workflow = jobs'[j].workflow_result
         /\ (loops[l].pc = "load" /\ jobs[j].status = "failed")
              => loops'[l].pc # "generate"]_vars

\* C10: for an id with no record the lookup is performed exactly once: a
\* loop about to look up an absent job is on its first attempt, never on a
\* retry.
C10_LookupNotRetried ==
    \A l \in DOMAIN loops :
      (loops[l].pc = "load" /\ jobs[loops[l].task.job] = NoJob)
        => loops[l].attempt = 1

\* C11: stop() returns only after every task that was executing when it was
\* called has run to completion (returned or raised, never cancelled), and
\* at the moment stop() returns no worker loop is still running.  Checked
\* for the pool as app.main.lifespan drives it.
C11_StopWaitsForInFlight ==
    [][(stop_call.pc = "gather" /\ stop_call'.pc = "idle")
         => /\ \A l \in DOMAIN loops : loops'[l].pc = "exited"
            /\ \A t \in 1..Len(tasklog) :
                 tasklog[t].atstop => tasklog'[t].end \in {"returned", "raised"}]_vars

\* stop() has returned; a task was awaiting its generation call when stop()
\* was called, and it went on to write its job completed.
C11_Witness ==
    /\ lifespan = "stopped"
    /\ stop_call.pc = "idle"
    /\ \E t \in 1..Len(tasklog) :
         /\ tasklog[t].atstop
         /\ tasklog[t].end = "returned"
         /\ jobs[tasklog[t].job].status = "completed"

\* C12: after stop() has been called (the stop event is set) no worker
\* begins executing a submitted task; only the no-op sentinels may still be
\* dequeued.  For every interleaving of enqueue(), stop() and worker steps.
C12_NoTaskStartsAfterStop ==
    [][stop_event =>
         \A l \in DOMAIN loops :
           ~(loops[l].pc = "get" /\ loops'[l].pc \in Executing)]_vars

C14_RunningBeforeGeneration ==
    [][\A l \in DOMAIN loops :
         LET j == loops'[l].task.job IN
         /\ (loops[l].pc = "load" /\ loops'[l].pc = "generate")
              => /\ jobs'[j].status = "running"
                 /\ jobs'[j].progress_percentage = 5
                 /\ jobs'[j].started_at # NULL
         /\ loops'[l].pc = "generate"
              => /\ jobs'[j] # NoJob
                 /\ jobs'[j].status # "queued"
                 /\ jobs'[j].started_at # NULL]_vars

\* A loop is awaiting the generation call for a job that reads running with
\* progress 5.
C14_Witness ==
    \E l \in DOMAIN loops :
      /\ loops[l].pc = "generate"
      /\ jobs[loops[l].task.job].status = "running"
      /\ jobs[loops[l].task.job].progress_percentage = 5
      /\ jobs[loops[l].task.job].started_at # NULL

\* C15: the status read for (jobId, requester) answers 404 exactly when
\* no record with that id exists; otherwise 403 when the record has a
\* recorded owner and the requesting identity differs from it; otherwise 200
\* with job_id and status equal to the stored values.  (reply is the answer
\* to the last read and no write came after it.)
C15_StatusReadAnswers ==
    (reply.handler = "status" /\ reply.job_id \in JobIds) =>
      LET row == jobs[reply.job_id]
          answer == reply.answer
      IN
      /\ answer.code = 404 <=> row = NoJob
      /\ row # NoJob =>
           IF row.user_id # NoUser /\ reply.requester # row.user_id
             THEN answer.code = 403
             ELSE answer.code = 200 /\ answer.status = row.status

\* C16: the status read is a pure lookup: a step that answers a status
\* read changes no job record and enqueues nothing; and a read of a completed
\* job that follows a read of the same job by the same requester, with no
\* write in between, gives the identical payload.
C16_StatusReadIsPure ==
    [][reply'.handler = "status" =>
         /\ jobs' = jobs
         /\ queue' = queue
         /\ submitted' = submitted
         /\ tasklog' = tasklog
         /\ (/\ reply.handler = "status"
             /\ reply.job_id = reply'.job_id
             /\ reply.requester = reply'.requester)
              => reply'.answer = reply.answer]_vars

\* A status read of a completed job has been answered with its workflow.
C16_Witness ==
    /\ reply.handler = "status"
    /\ reply.job_id \in JobIds
    /\ jobs[reply.job_id].status = "completed"
    /\ reply.answer.code = 200
    /\ reply.answer.status = "completed"
    /\ reply.answer.workflow = jobs[reply.job_id].workflow_result

\* C17: a generation request whose prompt is missing, empty or only
\* whitespace is rejected with 400, both by the synchronous generate
\* endpoint and by job creation; on job creation no record is created and
\* nothing is enqueued.
C17_EmptyPromptRejected ==
    [][(/\ reply'.handler \in {"generate", "create"}
        /\ ExtractPrompt(reply'.prompt) = "")
         => /\ reply'.answer.code = 400
            /\ jobs' = jobs
            /\ queue' = queue
            /\ submitted' = submitted]_vars

\* C18: in every reachable state of the store a job record carries a result
\* only if its status is completed and an error only if its status is
\* failed.
C18_ResultAndErrorMatchStatus ==
    \A j \in JobIds :
      jobs[j] # NoJob =>
        /\ jobs[j].workflow_result # NULL => jobs[j].status = "completed"
        /\ jobs[j].error_message # NULL => jobs[j].status = "failed"

\* C19: for every configured baseDelay and maxDelay the delay the retry
\* wrapper waits after the attempt-th failed attempt (attempts remaining) is
\* min(maxDelay, baseDelay * 2^(attempt-1)).
C19_DelayIsCappedExponential ==
    retry.state = "sleep" =>
      retry.delay = Min2(retry.cap, retry.base * Pow2(retry.attempt - 1))

\* C20: each call to the worker trigger with a job id enqueues exactly one
\* process(job_id) task and answers {status: accepted, job_id} without
\* waiting for the task to start or finish (no loop moves, the task is
\* untaken and pending when the call returns), even when every worker is
\* busy.
C20_TriggerEnqueuesOnce ==
    [][submitted' # submitted =>
         /\ submitted' = submitted + 1
         /\ reply'.handler = "trigger"
         /\ reply'.answer.code = 200
         /\ reply'.answer.status = "accepted"
         /\ queue' = Append(queue, ProcessTask(reply'.job_id, submitted'))
         /\ Len(tasklog') = submitted'
         /\ tasklog'[submitted'] = NewTaskLog(reply'.job_id)
         /\ loops' = loops
         /\ jobs' = jobs]_vars

\* The trigger answered accepted while every worker loop was executing a
\* task, and the task it enqueued is still waiting in the queue.
C20_Witness ==
    /\ reply.handler = "trigger"
    /\ reply.busy = worker_count
    /\ reply.answer.status = "accepted"
    /\ Cardinality(InFlight) = worker_count
    /\ queue # <<>>
    /\ queue[Len(queue)] = ProcessTask(reply.job_id, submitted)

\* C21: any two successful creations yield distinct job ids, and an id once
\* given to a job is never given to another job: a creation that answers 202
\* does so under an id no job held before.
C21_CreatedIdsAreFresh ==
    [][(reply'.handler = "create" /\ reply'.answer.code = 202)
         => jobs[reply'.job_id] = NoJob]_vars

\* C22: after creation no operation (worker trigger, process) changes a
\* job's input fields (prompt, mode, prior workflow, execution history,
\* configuration) or its owner: process(jobId) writes only the status,
\* progress, started_at, finished_at, result and error fields.
InputOf(row) ==
    [prompt |-> row.prompt, mode |-> row.mode,
     current_workflow |-> row.current_workflow,
     execution_history |-> row.execution_history, config |-> row.config,
     user_id |-> row.user_id]
C22_InputNeverChanges ==
    [][\A j \in JobIds :
         jobs[j] # NoJob =>
           /\ jobs'[j] # NoJob
           /\ InputOf(jobs'[j]) = InputOf(jobs[j])]_vars

\* A job has been through a failed run and a later run, and still carries
\* the input it was created with.
C22_Witness ==
    \E j \in JobIds :
      /\ joblog[j].failed
      /\ jobs[j].status \in {"running", "completed"}
      /\ InputOf(jobs[j]) = InputOf(NewJob("build a form", NoUser))

\* C23: for any sequence of start() and stop() calls on a TaskQueue with
\* worker_count = W the number of live worker loops is either 0 or exactly
\* W (read between calls, with no stop() pending).
C23_LiveLoopsZeroOrW ==
    stop_call.pc = "idle" => Cardinality(LiveLoops) \in {0, worker_count}

\* C24: whenever stop() is called on a started queue and no start()
\* overlaps it, stop() eventually returns, given that every executing task
\* terminates: for any number of queued tasks, under any interleaving with
\* enqueue(), and when workers are blocked on the empty queue.  Read on
\* finite runs: no stop() without an overlapping start() is ever left with
\* nothing that could end it.  A start() that overlaps the stop() shows as an
\* entry of _workers that the gather does not await.
Overlapped ==
    /\ stop_call.pc = "gather"
    /\ \E i \in 1..Len(workers) : workers[i] \notin stop_call.awaited

\* A stop() that no start() overlaps and that cannot return: a loop it awaits
\* is blocked on the empty queue, and so is every other live loop.
StopStuck ==
    /\ stop_call.pc = "gather"
    /\ ~Overlapped
    /\ queue = <<>>
    /\ \A l \in LiveLoops : loops[l].pc = "get"
    /\ stop_call.awaited \cap LiveLoops # {}
C24_StopReturns == ~StopStuck


\* C25: tasks leave the queue in the order they were enqueued: a task has
\* begun execution only if every task enqueued before it has begun, and the
\* tasks still queued are in enqueue order behind every task already taken
\* (so each worker also runs what it dequeues in enqueue order).  The order
\* in which tasks end is not constrained.
Begun(t) == tasklog[t].takers # <<>>
QueuedTids == [i \in {k \in 1..Len(queue) : queue[k].kind # "noop"} |-> queue[i].tid]
C25_FifoDequeue ==
    /\ \A t1, t2 \in 1..Len(tasklog) : (t1 < t2 /\ Begun(t2)) => Begun(t1)
    /\ \A i, k \in DOMAIN QueuedTids : i < k => QueuedTids[i] < QueuedTids[k]

\* Two tasks on two loops: the later one has ended, the earlier one has not.
C25_Witness ==
    \E t1, t2 \in 1..Len(tasklog) :
      /\ t1 < t2
      /\ Begun(t1) /\ Begun(t2)
      /\ tasklog[t1].takers # tasklog[t2].takers
      /\ tasklog[t1].end = "pending"
      /\ tasklog[t2].end # "pending"

\* C26: for each dequeued process(job_id) task the whole body is executed at
\* least once and at most max_retries times (the execution number of a loop
\* in the body is in 1..max_retries, and the task only ends by a step of the
\* body).  It is re-executed only when the previous execution let an
\* exception escape: that step wrote no terminal status and left the task
\* pending.  Every execution that finds the job writes status running and
\* progress 5 over whatever status it found.
InBody == {"load", "generate"}
C26_BodyRunsOneToMaxTimes ==
    [][\A l \in DOMAIN loops :
         /\ loops[l].pc \in InBody => loops[l].attempt \in 1..max_retries
         /\ loops'[l].pc \in InBody => loops'[l].attempt \in 1..max_retries
         /\ (loops[l].pc = "get" /\ loops'[l].pc \in InBody)
              => loops'[l].pc = "load" /\ loops'[l].attempt = 1
         /\ (loops[l].pc \in InBody /\ loops'[l].attempt # loops[l].attempt /\ loops'[l].pc \in InBody)
              => /\ loops'[l].attempt = loops[l].attempt + 1
                 /\ loops'[l].pc = "load"
                 /\ loops'[l].task = loops[l].task
                 /\ tasklog'[loops[l].task.tid].end = "pending"
                 /\ LET j == loops[l].task.job IN
                      jobs'[j] = jobs[j] \/ (jobs[j] # NoJob /\ jobs'[j] = UpdateRunning(jobs[j]))
         /\ (loops[l].pc = "load" /\ loops'[l].pc = "generate")
              => LET j == loops[l].task.job IN
                   /\ jobs[j] # NoJob
                   /\ jobs'[j] = UpdateRunning(jobs[j])
                   /\ jobs'[j].status = "running"
                   /\ jobs'[j].progress_percentage = 5]_vars

\* The last allowed execution of a task is at the outbound call and has
\* written running over a job that an earlier run had completed.
C26_Witness ==
    \E l \in DOMAIN loops :
      /\ loops[l].pc = "generate"
      /\ loops[l].attempt = max_retries
      /\ jobs[loops[l].task.job].status = "running"
      /\ joblog[loops[l].task.job].completed

\* C27: for a job with a non-empty prompt, whatever the outbound model call
\* does (an exception, a timeout, an empty or non-JSON reply), the generation
\* returns a workflow instead of raising: the execution ends the call by
\* writing completed with the parsed reply or the fallback, and writes
\* failed only with the store's own error (or writes nothing when the store
\* raised twice).  The call is made at most once per execution of the body:
\* after it the loop is out of the body or at the start of the next execution.
Workflows == {"llm_workflow", "fallback_workflow"}
C28_OwnerCheckNeedsBoth ==
    (/\ reply.handler = "status"
     /\ reply.job_id \in JobIds
     /\ jobs[reply.job_id] # NoJob
     /\ (reply.requester = NoUser \/ jobs[reply.job_id].user_id = NoUser))
      => /\ reply.answer.code = 200
         /\ reply.answer.status = jobs[reply.job_id].status
         /\ reply.answer.progress_percentage = jobs[reply.job_id].progress_percentage

\* A read without a requester identity got the view of a job that has an
\* owner.
C28_Witness ==
    /\ reply.handler = "status"
    /\ reply.job_id \in JobIds
    /\ reply.requester = NoUser
    /\ jobs[reply.job_id] # NoJob
    /\ jobs[reply.job_id].user_id = "userA"
    /\ reply.answer.code = 200
    /\ reply.answer.status = jobs[reply.job_id].status

\* C29: when stop() is called with no overlapping start(), each worker takes
\* at most one more item after the stop signal: while the signal stands no
\* loop comes (back) to the get, so a loop takes what a get already under
\* way gives it and nothing more.  The tasks still queued when the workers
\* exit are not lost and not executed by them: every task is in the queue
\* untaken, or held by the one loop that took it, or ended, exactly one of
\* the three.  After a later start() each of them is executed, once: a
\* queued task, with loops running and no stop signal, gets to its end
\* unless stop() is called again.
C29_OneMoreItem ==
    [][\A l \in DOMAIN loops :
         (stop_event /\ stop_event' /\ loops[l].pc # "get") => loops'[l].pc # "get"]_vars
C29_NotLost ==
    \A t \in 1..Len(tasklog) :
      /\ Len(tasklog[t].takers) <= 1
      /\ Cardinality(InQueue(t)) + Cardinality(HeldBy(t))
           + (IF tasklog[t].end # "pending" THEN 1 ELSE 0) = 1
C29_ExecutedAfterRestart ==
    \A t \in 1..MaxQueued :
      (t <= Len(tasklog) /\ InQueue(t) # {} /\ ~stop_event /\ LiveLoops # {})
        ~> ((t <= Len(tasklog) /\ tasklog[t].end # "pending") \/ stop_event)
C29_StopLeavesQueuedTasks ==
    /\ C29_OneMoreItem
    /\ []C29_NotLost
    /\ C29_ExecutedAfterRestart

\* A task that no loop of the first start() took has been executed to its
\* end by a loop of a later start(), the first loops having exited.
C29_Witness ==
    \E t \in 1..Len(tasklog) :
      /\ tasklog[t].end # "pending"
      /\ tasklog[t].takers[1] > worker_count
      /\ \A l \in 1..worker_count : loops[l].pc = "exited"
      /\ ~stop_event

\* C30: if start() is invoked while a stop() call is still waiting for the
\* workers to exit, that stop() call still returns (given terminating
\* tasks), and afterwards exactly the worker_count newly started loops are
\* live.  Read on finite runs: an overlapped stop() is never left waiting
\* for a loop that nothing will make exit, the stop event cleared, the
\* queue empty and every live loop, old and new, blocked in get.
OverlappedStopStuck ==
    /\ Overlapped
    /\ ~stop_event
    /\ queue = <<>>
    /\ \A l \in LiveLoops : loops[l].pc = "get"
    /\ stop_call.awaited \cap LiveLoops # {}
C30_OverlappedStopReturns == ~OverlappedStopStuck

=============================================================================
